---- MODULE Spec2Model ----
(***************************************************************************)
(* Model of the `ingest` command of ingestr (src/ingestr/main.py).         *)
(*                                                                         *)
(* One run of `ingest` is a sequence of steps separated by the points      *)
(* where the command talks to a collaborator: the connection factory, the  *)
(* confirmation prompt and the transfer engine (pipeline.run).  After a    *)
(* run has ended the command may be invoked again; the pipelines it has    *)
(* created so far are remembered across runs.                              *)
(*                                                                         *)
(* Python's Optional values are written as sequences: None is <<>> and a   *)
(* present value x is <<x>>, so that None, the empty string and the empty  *)
(* list stay three different values.                                       *)
(***************************************************************************)
EXTENDS Integers, Sequences, FiniteSets, TLC

VARIABLES
    pc,                   \* position of the run inside ingest
    source_uri,           \* parameter source_uri
    dest_uri,             \* parameter dest_uri
    source_table,         \* parameter source_table
    given,                \* the optional command line options as the user gave them
    dest_table,           \* local dest_table (after the default of line 83)
    incremental_key,      \* parameter incremental_key
    incremental_strategy, \* local incremental_strategy (after the rewrite of line 88)
    merge_key,            \* local merge_key
    interval_start,       \* parameter interval_start
    interval_end,         \* parameter interval_end
    primary_key,          \* parameter primary_key
    source,               \* handle returned by factory.get_source()
    destination,          \* handle returned by factory.get_destination()
    pipeline_name,        \* pipeline_name given to dlt.pipeline
    continuePipeline,     \* the answer to the confirmation prompt, None before it
    engine_calls,         \* the calls of pipeline.run made by this run, in order
    run_info,             \* what pipeline.run returned
    elapsedHuman,         \* local elapsedHuman
    reported,             \* the success report printed at line 153
    error,                \* the exception that ended the run, "" when none
    pipelines_dir         \* the pipelines created so far, each with the table it
                          \* loads and whether that table was the defaulted one

vars == <<pc, source_uri, dest_uri, source_table, given, dest_table,
          incremental_key, incremental_strategy, merge_key, interval_start,
          interval_end, primary_key, source, destination, pipeline_name,
          continuePipeline, engine_calls, run_info, elapsedHuman, reported,
          error, pipelines_dir>>

\* ------------------------------------------------------------------------
\* Values

None == <<>>

Some(x) == <<x>>

\* Largest timestamp of the model; timestamps are 1..MaxTime.
MaxTime == 2

Timestamps == 1..MaxTime

OptTimestamps == {None} \cup {Some(t) : t \in Timestamps}

\* Python truthiness of an Optional[str]: None and "" are falsy.
Truthy(v) == v # None /\ v[1] # ""

\* Python truthiness of an Optional[datetime]: only None is falsy.
TruthyTime(v) == v # None

\* The backends the command documents in example_uris.
KnownSchemes == {"postgres", "bigquery", "snowflake", "redshift", "databricks",
                 "mssql", "mysql", "duckdb", "sqlite"}

\* The strategy names the --incremental-strategy help text lists.
ValidStrategies == {"replace", "append", "delete+insert", "merge"}

\* The write dispositions of the transfer engine.
WriteDispositions == {"replace", "append", "merge"}

\* ------------------------------------------------------------------------
\* Inputs of the model

SourceURIs == { [scheme |-> "postgres", rest |-> "u:p@h/db"],
                [scheme |-> "mysql",    rest |-> "u:p@h/db"],
                [scheme |-> "ftp",      rest |-> "h/file"] }

DestURIs == { [scheme |-> "duckdb",   rest |-> "path/db"],
              [scheme |-> "bigquery", rest |-> "project-id"],
              [scheme |-> "ftp",      rest |-> "h/file"] }

SourceTables == {"orders", "users"}

DestTableOptions == {None, Some(""), Some("orders")}

IncrementalKeyOptions == {None, Some(""), Some("updated_at")}

\* None stands for an omitted --incremental-strategy; "upsert" is a name
\* outside the documented ones.
StrategyOptions == {None} \cup {Some(s) : s \in ValidStrategies \cup {"upsert"}}

PrimaryKeyOptions == {None, Some(<<>>), Some(<<"id">>)}

\* ------------------------------------------------------------------------
\* Functions of the command

\* Default of the parameter incremental_strategy.
DefaultStrategy == "replace"

\* The value typer binds to incremental_strategy.
StrategyParam(opt) == IF opt = None THEN DefaultStrategy ELSE opt[1]

\* Variant of EffectiveDestTable that defaults only an omitted dest_table.
EffectiveDestTable_none_only(dt, st) == IF dt = None THEN st ELSE dt[1]

\* Lines 78-83: the destination table defaults to the source table.
EffectiveDestTable(dt, st) == IF ~Truthy(dt) THEN st ELSE dt[1]

\* Variant of resolve_strategy that forgets the merge key of delete+insert.
resolve_strategy_no_key(strategy, key) ==
    IF strategy = "delete+insert" THEN <<"merge", None>> ELSE <<strategy, None>>

\* Variant of resolve_strategy that sets the merge key but keeps the name.
resolve_strategy_keep_name(strategy, key) ==
    IF strategy = "delete+insert" THEN <<strategy, key>> ELSE <<strategy, None>>

\* Lines 85-88: <<write disposition, merge key>> of a strategy name.
resolve_strategy(strategy, key) ==
    IF strategy = "delete+insert" THEN <<"merge", key>> ELSE <<strategy, None>>

\* hashlib.sha256(t.encode("utf-8")).hexdigest() for the table names of the model.
sha256_hexdigest(t) ==
    CASE t = "orders" -> "1c168adb00d208e42f93314529f1fa9c0427eb63233ceda95a5db52b7012a719"
      [] t = "users"  -> "7dfb4cf67742cb0660305e56ef816c53fcec892cae7f6ee39b75f34e659d672c"
      [] t = ""       -> "e3b0c44298fc1c149afbf4c8996fb92427ae41e4649b934ca495991b7852b855"

\* Variant of PipelineName that digests the source table.
PipelineName_of_source(dt) == sha256_hexdigest(source_table)

\* Lines 94-98: the pipeline name of a run.
PipelineName(dt) == sha256_hexdigest(dt)

\* Line 143: the primary_key argument of pipeline.run.
PrimaryKeyArg(pk) == IF pk # None /\ Len(pk[1]) > 0 THEN pk ELSE None

\* Variant of RunArgs that drops the interval bounds when there is no
\* incremental key to filter on.
RunArgs_drop_bounds(s_uri, d_uri, s_table, d_table, inc_key, m_key, i_start, i_end, strategy, pk) ==
    [ source |-> [ uri             |-> s_uri,
                   table           |-> s_table,
                   incremental_key |-> inc_key,
                   merge_key       |-> m_key,
                   interval_start  |-> IF Truthy(inc_key) THEN i_start ELSE None,
                   interval_end    |-> IF Truthy(inc_key) THEN i_end ELSE None ],
      run_params        |-> [ uri |-> d_uri, table |-> d_table ],
      write_disposition |-> strategy,
      primary_key       |-> PrimaryKeyArg(pk) ]

\* Lines 129-144: the arguments of pipeline.run.
RunArgs(s_uri, d_uri, s_table, d_table, inc_key, m_key, i_start, i_end, strategy, pk) ==
    [ source |-> [ uri             |-> s_uri,
                   table           |-> s_table,
                   incremental_key |-> inc_key,
                   merge_key       |-> m_key,
                   interval_start  |-> i_start,
                   interval_end    |-> i_end ],
      run_params        |-> [ uri |-> d_uri, table |-> d_table ],
      write_disposition |-> strategy,
      primary_key       |-> PrimaryKeyArg(pk) ]

\* Lines 146-149: whether computing the duration raises.  The subtraction
\* finished_at - started_at is evaluated only when started_at is truthy, and
\* raises TypeError when finished_at is None.
DurationRaises(info) == TruthyTime(info.started_at) /\ info.finished_at = None

\* Lines 146-149: elapsedHuman, "" when started_at is absent.
ElapsedHuman(info) ==
    IF TruthyTime(info.started_at)
    THEN Some(info.finished_at[1] - info.started_at[1])
    ELSE None

\* Connection factory: a handle for a URI, or the error of resolving it.
FactoryResolves(uri) == uri.scheme \in KnownSchemes

NoRunInfo == [status |-> "none", started_at |-> None, finished_at |-> None]

NoGiven == [dest_table |-> None, incremental_strategy |-> None]

\* ------------------------------------------------------------------------
\* Initial state: the command has not been invoked.

Init ==
    /\ pc = "idle"
    /\ source_uri = [scheme |-> "postgres", rest |-> "u:p@h/db"]
    /\ dest_uri = [scheme |-> "duckdb", rest |-> "path/db"]
    /\ source_table = "orders"
    /\ given = NoGiven
    /\ dest_table = None
    /\ incremental_key = None
    /\ incremental_strategy = DefaultStrategy
    /\ merge_key = None
    /\ interval_start = None
    /\ interval_end = None
    /\ primary_key = None
    /\ source = None
    /\ destination = None
    /\ pipeline_name = None
    /\ continuePipeline = None
    /\ engine_calls = <<>>
    /\ run_info = NoRunInfo
    /\ elapsedHuman = None
    /\ reported = None
    /\ error = ""
    /\ pipelines_dir = {}

\* ------------------------------------------------------------------------
\* Steps of ingest

\* Lines 34-90: the command is invoked with its options; the destination
\* table is defaulted, the strategy resolved and the factory constructed.
Begin ==
    /\ pc = "idle"
    /\ \E su \in SourceURIs, du \in DestURIs, st \in SourceTables,
          dt \in DestTableOptions, ik \in IncrementalKeyOptions,
          so \in StrategyOptions, is \in OptTimestamps, ie \in OptTimestamps,
          pk \in PrimaryKeyOptions :
          /\ source_uri' = su
          /\ dest_uri' = du
          /\ source_table' = st
          /\ given' = [dest_table |-> dt, incremental_strategy |-> so]
          /\ dest_table' = Some(EffectiveDestTable(dt, st))
          /\ incremental_key' = ik
          /\ incremental_strategy' = resolve_strategy(StrategyParam(so), ik)[1]
          /\ merge_key' = resolve_strategy(StrategyParam(so), ik)[2]
          /\ interval_start' = is
          /\ interval_end' = ie
          /\ primary_key' = pk
    /\ pc' = "get_source"
    /\ UNCHANGED <<source, destination, pipeline_name, continuePipeline,
                   engine_calls, run_info, elapsedHuman, reported, error,
                   pipelines_dir>>

\* Line 91: factory.get_source().
GetSource ==
    /\ pc = "get_source"
    /\ IF FactoryResolves(source_uri)
       THEN /\ source' = Some(source_uri.scheme)
            /\ pc' = "get_destination"
            /\ error' = error
       ELSE /\ source' = source
            /\ pc' = "error"
            /\ error' = "UnknownScheme"
    /\ UNCHANGED <<source_uri, dest_uri, source_table, given, dest_table,
                   incremental_key, incremental_strategy, merge_key,
                   interval_start, interval_end, primary_key, destination,
                   pipeline_name, continuePipeline, engine_calls, run_info,
                   elapsedHuman, reported, pipelines_dir>>

\* Line 92: factory.get_destination().
GetDestination ==
    /\ pc = "get_destination"
    /\ IF FactoryResolves(dest_uri)
       THEN /\ destination' = Some(dest_uri.scheme)
            /\ pc' = "pipeline"
            /\ error' = error
       ELSE /\ destination' = destination
            /\ pc' = "error"
            /\ error' = "UnknownScheme"
    /\ UNCHANGED <<source_uri, dest_uri, source_table, given, dest_table,
                   incremental_key, incremental_strategy, merge_key,
                   interval_start, interval_end, primary_key, source,
                   pipeline_name, continuePipeline, engine_calls, run_info,
                   elapsedHuman, reported, pipelines_dir>>

\* Lines 94-119: the pipeline is created under the digest of the destination
\* table and the plan is printed.
CreatePipeline ==
    /\ pc = "pipeline"
    /\ pipeline_name' = Some(PipelineName(dest_table[1]))
    /\ pipelines_dir' = pipelines_dir \cup
           { [ pipeline_name |-> PipelineName(dest_table[1]),
               table         |-> dest_table[1],
               defaulted     |-> ~Truthy(given.dest_table) ] }
    /\ pc' = "confirm"
    /\ UNCHANGED <<source_uri, dest_uri, source_table, given, dest_table,
                   incremental_key, incremental_strategy, merge_key,
                   interval_start, interval_end, primary_key, source,
                   destination, continuePipeline, engine_calls, run_info,
                   elapsedHuman, reported, error>>

\* Variant of AfterConfirm that ignores the answer.
AfterConfirm_always_run(answer) == "run"

\* Where the run goes after the answer to the confirmation prompt.
AfterConfirm(answer) == IF ~answer THEN "aborted" ELSE "run"

\* Lines 121-127: the confirmation prompt; declining raises typer.Abort.
Confirm ==
    /\ pc = "confirm"
    /\ \E answer \in BOOLEAN :
          /\ continuePipeline' = Some(answer)
          /\ pc' = AfterConfirm(answer)
          /\ error' = IF answer THEN error ELSE "Abort"
    /\ UNCHANGED <<source_uri, dest_uri, source_table, given, dest_table,
                   incremental_key, incremental_strategy, merge_key,
                   interval_start, interval_end, primary_key, source,
                   destination, pipeline_name, engine_calls, run_info,
                   elapsedHuman, reported, pipelines_dir>>

\* What the transfer engine can return: a run result whose timestamps may be
\* absent.
RunResults == [status : {"loaded"}, started_at : OptTimestamps, finished_at : OptTimestamps]

\* Lines 129-144: pipeline.run is called with the resolved plan; it returns
\* a run result or raises.
Run ==
    /\ pc = "run"
    /\ engine_calls' = Append(engine_calls,
           RunArgs(source_uri, dest_uri, source_table, dest_table[1],
                   incremental_key, merge_key, interval_start, interval_end,
                   incremental_strategy, primary_key))
    /\ \/ \E r \in RunResults :
             /\ run_info' = r
             /\ pc' = "report"
             /\ error' = error
       \/ /\ run_info' = run_info
          /\ pc' = "error"
          /\ error' = "TransferEngineFailure"
    /\ UNCHANGED <<source_uri, dest_uri, source_table, given, dest_table,
                   incremental_key, incremental_strategy, merge_key,
                   interval_start, interval_end, primary_key, source,
                   destination, pipeline_name, continuePipeline, elapsedHuman,
                   reported, pipelines_dir>>

\* Lines 146-154: the duration is computed and the success is reported.
Report ==
    /\ pc = "report"
    /\ IF DurationRaises(run_info)
       THEN /\ pc' = "error"
            /\ error' = "TypeError"
            /\ UNCHANGED <<elapsedHuman, reported>>
       ELSE /\ elapsedHuman' = ElapsedHuman(run_info)
            /\ reported' = Some([ source_scheme      |-> source_uri.scheme,
                                  destination_scheme |-> dest_uri.scheme,
                                  elapsed            |-> ElapsedHuman(run_info) ])
            /\ pc' = "done"
            /\ error' = error
    /\ UNCHANGED <<source_uri, dest_uri, source_table, given, dest_table,
                   incremental_key, incremental_strategy, merge_key,
                   interval_start, interval_end, primary_key, source,
                   destination, pipeline_name, continuePipeline, engine_calls,
                   run_info, pipelines_dir>>

\* The process ends; the command can be invoked again.  Only the pipelines
\* directory outlives the process.
Exit ==
    /\ pc \in {"done", "aborted", "error"}
    /\ pc' = "idle"
    /\ source_uri' = [scheme |-> "postgres", rest |-> "u:p@h/db"]
    /\ dest_uri' = [scheme |-> "duckdb", rest |-> "path/db"]
    /\ source_table' = "orders"
    /\ given' = NoGiven
    /\ dest_table' = None
    /\ incremental_key' = None
    /\ incremental_strategy' = DefaultStrategy
    /\ merge_key' = None
    /\ interval_start' = None
    /\ interval_end' = None
    /\ primary_key' = None
    /\ source' = None
    /\ destination' = None
    /\ pipeline_name' = None
    /\ continuePipeline' = None
    /\ engine_calls' = <<>>
    /\ run_info' = NoRunInfo
    /\ elapsedHuman' = None
    /\ reported' = None
    /\ error' = ""
    /\ UNCHANGED pipelines_dir

Next ==
    \/ Begin
    \/ GetSource
    \/ GetDestination
    \/ CreatePipeline
    \/ Confirm
    \/ Run
    \/ Report
    \/ Exit

Spec == Init /\ [][Next]_vars

\* ------------------------------------------------------------------------
\* Properties

\* The strategy name typer bound to incremental_strategy for this run.
GivenStrategy == StrategyParam(given.incremental_strategy)

\* The calls of the transfer engine made by this run.
Calls == {engine_calls[i] : i \in DOMAIN engine_calls}

\* An interval bound was supplied.
BoundSupplied == interval_start # None \/ interval_end # None

\* C1: every call of the transfer engine of a run invoked with strategy
\* delete+insert has write_disposition merge and the incremental key as its
\* merge key; for any other strategy name the write_disposition is the
\* name itself.
C1_DeleteInsertIsMerge ==
    \A c \in Calls :
        /\ GivenStrategy = "delete+insert" =>
               c.write_disposition = "merge" /\ c.source.merge_key = incremental_key
        /\ GivenStrategy # "delete+insert" => c.write_disposition = GivenStrategy

C1_Witness ==
    /\ Len(engine_calls) = 1
    /\ GivenStrategy = "delete+insert"
    /\ incremental_key = Some("updated_at")
    /\ engine_calls[1].source.merge_key = Some("updated_at")

\* C2: the transfer engine is invoked at most once in a run, and only after
\* both handles were resolved and the user confirmed; a run whose handle
\* resolution failed or whose user declined has ended in the error or abort
\* state without any call of the engine.
C2_EngineOnlyAfterConfirm ==
    /\ Len(engine_calls) <= 1
    /\ engine_calls # <<>> =>
           source # None /\ destination # None /\ continuePipeline = Some(TRUE)
    /\ continuePipeline = Some(FALSE) => pc = "aborted" /\ engine_calls = <<>>
    /\ (pc \notin {"idle", "get_source"} /\ ~FactoryResolves(source_uri)) =>
           pc = "error" /\ engine_calls = <<>>
    /\ (pc \notin {"idle", "get_source", "get_destination"} /\ ~FactoryResolves(dest_uri)) =>
           pc = "error" /\ engine_calls = <<>>

C2_Witness ==
    /\ Len(engine_calls) = 1
    /\ continuePipeline = Some(TRUE)
    /\ source # None
    /\ destination # None

\* C3: every call of the transfer engine with write_disposition merge
\* carries a non-empty merge key or a non-empty primary key.
C3_MergeHasKey ==
    \A c \in Calls :
        c.write_disposition = "merge" =>
            Truthy(c.source.merge_key) \/ c.primary_key # None

\* C4: the write_disposition handed to the transfer engine is one of
\* replace, append and merge.
C4_DispositionIsKnown ==
    \A c \in Calls : c.write_disposition \in WriteDispositions

\* C5: the transfer engine is never invoked with an interval whose end is
\* earlier than its start.
C5_IntervalOrdered ==
    \A c \in Calls :
        (c.source.interval_start # None /\ c.source.interval_end # None) =>
            ~(c.source.interval_end[1] < c.source.interval_start[1])

C7_ResolveIdempotent ==
    (pc # "idle" /\ GivenStrategy \in ValidStrategies) =>
        resolve_strategy(incremental_strategy, incremental_key)
            = <<incremental_strategy, merge_key>>

\* C7 as amended: for a valid strategy name, resolving again yields the same
\* write disposition; it yields the same merge key unless the strategy was
\* delete+insert with an incremental key supplied, where the first
\* resolution has the incremental key as merge key and the second has none.
C7_DispositionStable ==
    (pc # "idle" /\ GivenStrategy \in ValidStrategies) =>
        LET again == resolve_strategy(incremental_strategy, incremental_key) IN
        /\ again[1] = incremental_strategy
        /\ (GivenStrategy # "delete+insert" \/ incremental_key = None) =>
               again[2] = merge_key
        /\ (GivenStrategy = "delete+insert" /\ incremental_key # None) =>
               again[2] = None /\ merge_key = incremental_key

C7_Witness ==
    /\ pc = "get_source"
    /\ GivenStrategy = "delete+insert"
    /\ incremental_key = Some("updated_at")
    /\ incremental_strategy = "merge"
    /\ merge_key = Some("updated_at")

\* C8: the pipeline name depends on the effective destination table only:
\* all pipelines created for one table, in whatever run, have one name, and
\* with dest_table not given the name is the digest of the source table.
C8_IdentityOfDestTable ==
    /\ \A p \in pipelines_dir, q \in pipelines_dir :
           p.table = q.table => p.pipeline_name = q.pipeline_name
    /\ (pipeline_name # None /\ ~Truthy(given.dest_table)) =>
           pipeline_name = Some(sha256_hexdigest(source_table))
    /\ (pipeline_name # None /\ Truthy(given.dest_table)) =>
           pipeline_name = Some(sha256_hexdigest(given.dest_table[1]))

C8_Witness ==
    /\ \E p \in pipelines_dir, q \in pipelines_dir :
           p.table = "orders" /\ q.table = "orders" /\ p.defaulted /\ ~q.defaulted
    /\ pc = "confirm"
    /\ dest_uri.scheme = "bigquery"
    /\ source_uri.scheme = "mysql"
    /\ source_table = "users"
    /\ given.dest_table = Some("orders")

\* C9: with dest_table absent or empty the table passed to the transfer
\* engine is the source table, a non-empty dest_table is passed unchanged,
\* and with the strategy not given the engine is invoked with
\* write_disposition replace, no merge key and the incremental key as the
\* user supplied it.
C9_Defaults ==
    \A c \in Calls :
        /\ ~Truthy(given.dest_table) => c.run_params.table = source_table
        /\ Truthy(given.dest_table) => c.run_params.table = given.dest_table[1]
        /\ given.incremental_strategy = None =>
               /\ c.write_disposition = "replace"
               /\ c.source.merge_key = None
               /\ c.source.incremental_key = incremental_key

C9_Witness ==
    /\ Len(engine_calls) = 1
    /\ given.dest_table = Some("")
    /\ given.incremental_strategy = None
    /\ source_table = "users"
    /\ engine_calls[1].run_params.table = "users"
    /\ engine_calls[1].write_disposition = "replace"

\* C10: once the transfer engine has returned a run result, the run reaches
\* the success report, whatever timestamps the result carries: the duration
\* is the difference of the timestamps when both are there and empty
\* otherwise.
C10_AlwaysReports ==
    (run_info.status = "loaded" /\ pc # "report") =>
        /\ pc = "done"
        /\ reported # None
        /\ reported[1].elapsed =
               IF run_info.started_at # None /\ run_info.finished_at # None
               THEN Some(run_info.finished_at[1] - run_info.started_at[1])
               ELSE None

====
